---- MODULE Spec2Model ----
(***************************************************************************)
(* Model of the Databricks orchestrator's pipeline submission             *)
(* (DatabricksOrchestrator.prepare_or_run_pipeline and the nested          *)
(* _construct_databricks_pipeline, _upload_and_run_pipeline).              *)
(*                                                                         *)
(* A text value (Python str) is a sequence of text fragments; f-strings    *)
(* and str.join are concatenation (\o) of such sequences.                  *)
(***************************************************************************)
EXTENDS Integers, Sequences, FiniteSets, TLC

VARIABLES
    deployment,     \* [p -> PipelineDeploymentResponse] argument of the call
    environment,    \* [p -> Dict[str, str]] argument, as a sequence of <<key, value>>
    notebook,       \* [p -> BOOLEAN] Environment.in_notebook()
    pc,             \* [p -> position in prepare_or_run_pipeline]
    run_name,       \* [p -> orchestrator_run_name]
    temp_dir,       \* [p -> "none" | "exists" | "removed"] repository_temp_dir
    wheel_path,     \* [p -> "unset" | "temp" | "elsewhere"] where create_wheel put the wheel
    wheel_copied,   \* [p -> BOOLEAN] pipeline_wheel_path was written
    file_bytes,     \* [p -> BOOLEAN] the wheel was opened and read
    step_idx,       \* [p -> index of the step the translation loop is at]
    tasks,          \* [p -> list of DatabricksTask built so far]
    error,          \* [p -> the exception that left prepare_or_run_pipeline]
    result,         \* [p -> value returned to the caller]
    calls,          \* [p -> remote operations invoked by p, in order]
    pipeline_dir,   \* BOOLEAN: self.pipeline_directory exists locally
    remote_dirs,    \* directories on the backend volume
    remote_files,   \* files on the backend volume
    jobs,           \* jobs created on the backend
    environ,        \* os.environ of the process that asks for its run id
    run_id,         \* outcome of the last get_orchestrator_run_id()
    stack,          \* the stack handed to the orchestrator's validator
    validation,     \* outcome of the last _validate_remote_components(stack)
    now,            \* the clock, in ticks
    stacks,         \* the store's stacks, in order of registration
    date_start,     \* AWSZenMLCloudStackDeployment.date_start
    found,          \* value returned by the last get_stack()
    listed,         \* stacks.items of the last get_stack(), as store indices
    seen,           \* indices of the stacks listed by earlier get_stack() calls
    relisted,       \* stacks the last get_stack() listed that an earlier one had listed
    store_calls,    \* the requests zen_store.create_event_source was called with
    event_source,   \* outcome of the last create_event_source(event_source)
    schemas,        \* value returned by the last call of a flavor's classmethod
    tracking,       \* the wrapped step and the stack it runs on
    tpc,            \* position in mlflow_step_entrypoint's wrapper
    entered,        \* the runs whose `with` block is entered, innermost last
    events,         \* what the wrapper did so far, in order
    wrapped         \* how the wrapper left: value returned or exception raised

submissionVars ==
    <<deployment, environment, notebook, pc, run_name, temp_dir, wheel_path,
      wheel_copied, file_bytes, step_idx, tasks, error, result, calls,
      pipeline_dir, remote_dirs, remote_files, jobs>>

methodVars == <<environ, run_id, stack, validation>>

deploymentVars == <<now, stacks, date_start, found, listed, seen, relisted>>

pluginVars == <<store_calls, event_source, schemas>>

trackingVars == <<tracking, tpc, entered, events, wrapped>>

integrationVars == <<pluginVars, trackingVars>>

vars == <<submissionVars, methodVars, deploymentVars, integrationVars>>

(***************************** bounds *************************************)
\* number of characters of a rendered deployment id (a UUID has 36)
UuidLen == 2
\* largest number of steps of a deployment
MaxSteps == 3
\* largest number of components of a validated stack
MaxComponents == 3
\* clock ticks per second (a datetime has 1000000 microseconds per second)
TicksPerSecond == 2
\* last tick of the clock
MaxTime == 2
\* largest number of stacks in the store
MaxStacks == 3
\* page size of list_stacks (the code asks for size=50)
PageSize == 2
\* largest number of event sources in the store
MaxEventSources == 2
\* largest number of mlflow logging calls of a step body
MaxLogs == 3

Procs == {1, 2}

(***************************** text helpers *******************************)
RECURSIVE SeqsOfLen(_, _)
SeqsOfLen(S, n) ==
    IF n = 0 THEN {<<>>}
    ELSE {Append(s, x) : s \in SeqsOfLen(S, n - 1), x \in S}

RECURSIVE Join(_, _)
\* sep.join(parts)
Join(sep, parts) ==
    IF Len(parts) = 0 THEN <<>>
    ELSE IF Len(parts) = 1 THEN parts[1]
    ELSE parts[1] \o sep \o Join(sep, Tail(parts))

RECURSIVE Chain(_)
\* itertools.chain.from_iterable
Chain(lists) ==
    IF Len(lists) = 0 THEN <<>> ELSE lists[1] \o Chain(Tail(lists))

(***************************** inputs *************************************)
HexDigits == {"0", "f"}

\* str(deployment.id): a UUID, fixed width, hexadecimal digits
DeploymentIds == SeqsOfLen(HexDigits, UuidLen)

\* step names, in the order a deployment lists them
StepNameList == << <<"extract">>, <<"transform">>, <<"load">>, <<"load", "_", "2">> >>

\* a name that is no key of step_configurations
GhostStep == <<"ghost">>

PipelineName == <<"pipe">>

ENV_ZENML_DATABRICKS_ORCHESTRATOR_RUN_ID == "ZENML_DATABRICKS_ORCHESTRATOR_RUN_ID"

ENV_ZENML_DATABRICKS_SOURCE_PREFIX == "ZENML_DATABRICKS_SOURCE_PREFIX"

ZENML_STEP_DEFAULT_ENTRYPOINT_COMMAND == <<"entrypoint.main">>

StepNamesOf(n) == {StepNameList[i] : i \in 1..n}

\* step.spec.upstream_steps of a step of an n-step deployment
UpstreamChoices(n) ==
    {<<>>} \cup {<<u>> : u \in StepNamesOf(n) \cup {GhostStep}}
           \cup (IF n >= 3 THEN {<<StepNameList[2], StepNameList[1]>>} ELSE {})

\* docker settings of the n steps: at most one block is malformed
SettingsChoices(n) ==
    {[i \in 1..n |-> IF i = bad THEN "malformed" ELSE "requirements"] : bad \in 0..n}

StepConfigurations(n) ==
    {[i \in 1..n |-> [name |-> StepNameList[i],
                      upstream_steps |-> ups[i],
                      docker_settings |-> ds[i]]] :
        ups \in [1..n -> UpstreamChoices(n)], ds \in SettingsChoices(n)}

\* the deployments of a single submission
Deployments ==
    UNION {{[id |-> d, pipeline_name |-> PipelineName, step_configurations |-> sc] :
               d \in SeqsOfLen({"0"}, UuidLen),
               sc \in StepConfigurations(n)} : n \in 1..MaxSteps}

\* caller-supplied environments
Environments ==
    { << <<"A", "1">> >>,
      << <<"A", "1">>, <<ENV_ZENML_DATABRICKS_ORCHESTRATOR_RUN_ID, "other">> >> }

\* the deployments of two submissions that share a backend
SharedBackendDeployments ==
    {[id |-> d, pipeline_name |-> PipelineName, step_configurations |-> sc] :
        d \in DeploymentIds,
        sc \in { << [name |-> <<"extract">>, upstream_steps |-> <<>>,
                     docker_settings |-> "requirements"] >>,
                 << [name |-> <<"extract">>, upstream_steps |-> <<>>,
                     docker_settings |-> "requirements"],
                    [name |-> <<"f", "_", "extract">>, upstream_steps |-> << <<"extract">> >>,
                     docker_settings |-> "requirements"] >> }}

NoDeployment == [id |-> <<>>, pipeline_name |-> <<>>, step_configurations |-> <<>>]

\* random suffixes get_orchestrator_run_name appends
RunSuffixes == {"r1", "r2"}

\* where create_wheel leaves the wheel: inside temp_dir or not
WheelLocations == {"temp", "elsewhere"}

WheelFileName == <<"zenmlproject.whl">>

NoError == [type |-> "none", op |-> "none"]

\* the exception a called function raised, propagated unchanged
Native(op) == [type |-> "native", op |-> op]

(***************************** translation ********************************)
\* StepEntrypointConfiguration.get_entrypoint_arguments(step_name, deployment_id)
get_entrypoint_arguments(step_name, deployment_id) ==
    << <<"--deployment_id">>, deployment_id, <<"--step_name">>, step_name >>

\* env_vars with the injected entries put before the caller's
EnvVarsInjectedFirst(env, deployment_id) ==
    << <<ENV_ZENML_DATABRICKS_SOURCE_PREFIX, "=", "zenmlproject">>,
       <<ENV_ZENML_DATABRICKS_ORCHESTRATOR_RUN_ID, "=">> \o deployment_id >>
        \o [i \in 1..Len(env) |-> <<env[i][1], "=", env[i][2]>>]

\* the env_vars list of one task: caller entries in dict order, then the two
\* injected entries, each rendered "key=value"
EnvVars(env, deployment_id) ==
    [i \in 1..Len(env) |-> <<env[i][1], "=", env[i][2]>>]
        \o << <<ENV_ZENML_DATABRICKS_SOURCE_PREFIX, "=", "zenmlproject">>,
              <<ENV_ZENML_DATABRICKS_ORCHESTRATOR_RUN_ID, "=">> \o deployment_id >>

\* env_arg = ",".join(env_vars)
EnvArg(env, deployment_id) == Join(<<",">>, EnvVars(env, deployment_id))

\* a task key that leaves the deployment id out
TaskKeyWithoutDeployment(deployment_id, step_name) == step_name

\* f"{deployment.id}_{step_name}"
TaskKey(deployment_id, step_name) == deployment_id \o <<"_">> \o step_name

\* upstream identifiers of the first upstream step only
FirstUpstreamTaskKey(deployment_id, step) ==
    IF Len(step.upstream_steps) = 0 THEN <<>>
    ELSE << deployment_id \o <<"_">> \o step.upstream_steps[1] >>

\* upstream identifiers that are the bare upstream step names
UpstreamStepNames(deployment_id, step) == step.upstream_steps

\* upstream_steps: one prefixed identifier per entry of step.spec.upstream_steps
UpstreamTaskKeys(deployment_id, step) ==
    [i \in 1..Len(step.upstream_steps) |-> TaskKey(deployment_id, step.upstream_steps[i])]

\* PipelineDockerImageBuilder.gather_requirements_files: (name, content) files
gather_requirements_files(docker_settings) ==
    << <<"user.txt", << <<"x==1">> >> >>,
       <<"integration.txt", << <<"y==2">>, <<"x==1">> >> >> >>

\* requirements: every line of every file, in order, duplicates kept
Requirements(docker_settings) ==
    LET files == gather_requirements_files(docker_settings)
    IN  Chain([i \in 1..Len(files) |-> files[i][2]])

\* databricks_utils.convert_step_to_task
convert_step_to_task(task_key, command, arguments, requirements, depends_on) ==
    [task_key |-> task_key, command |-> command, parameters |-> arguments,
     libraries |-> requirements, depends_on |-> depends_on]

\* the task built by one iteration of the loop of _construct_databricks_pipeline
TaskOf(dep, env, step) ==
    convert_step_to_task(
        TaskKey(dep.id, step.name),
        ZENML_STEP_DEFAULT_ENTRYPOINT_COMMAND,
        get_entrypoint_arguments(step.name, dep.id)
            \o << <<"--env">>, EnvArg(env, dep.id) >>,
        Requirements(step.docker_settings),
        UpstreamTaskKeys(dep.id, step))

(***************************** task environment ***************************)
RECURSIVE SplitOn(_, _)
\* text.split(sep)
SplitOn(text, sep) ==
    IF Len(text) = 0 THEN << <<>> >>
    ELSE LET rest == SplitOn(Tail(text), sep)
         IN  IF Head(text) = sep
             THEN << <<>> >> \o rest
             ELSE << <<Head(text)>> \o rest[1] >> \o Tail(rest)

\* entry.split("=", 1): <<key, value>>
KeyValue(entry) ==
    LET at == CHOOSE i \in 1..Len(entry) :
                  entry[i] = "=" /\ \A k \in 1..(i - 1) : entry[k] # "="
    IN  <<SubSeq(entry, 1, at - 1), SubSeq(entry, at + 1, Len(entry))>>

\* items of a dict after dict[key] = value: a present key keeps its place
DictPut(items, key, value) ==
    IF \E i \in 1..Len(items) : items[i][1] = key
    THEN [i \in 1..Len(items) |-> IF items[i][1] = key THEN <<key, value>> ELSE items[i]]
    ELSE Append(items, <<key, value>>)

RECURSIVE Flatten(_, _)
Flatten(items, entries) ==
    IF Len(entries) = 0 THEN items
    ELSE Flatten(DictPut(items, KeyValue(entries[1])[1], KeyValue(entries[1])[2]),
                 Tail(entries))

\* the task environment a step process gets from its --env argument:
\* entries flattened in order, a later entry replacing an earlier one of its key
ResolveEnvironment(env_arg) == Flatten(<<>>, SplitOn(env_arg, ","))

(***************************** submission *********************************)
\* the notebook check made after the packaging
FlowNotebookCheckLate ==
    << "run_name", "makedirs", "copy_repository", "create_wheel", "copy_wheel",
       "rmtree", "check_notebook", "create_directory", "open_wheel", "upload",
       "translate", "jobs_create", "done" >>

\* the job created before the wheel is uploaded
FlowSubmitBeforeUpload ==
    << "check_notebook", "run_name", "makedirs", "copy_repository", "create_wheel",
       "copy_wheel", "rmtree", "create_directory", "translate", "jobs_create",
       "open_wheel", "upload", "done" >>

\* the statements of prepare_or_run_pipeline, in program order
Flow ==
    << "check_notebook", "run_name", "makedirs", "copy_repository", "create_wheel",
       "copy_wheel", "rmtree", "create_directory", "open_wheel", "upload",
       "translate", "jobs_create", "done" >>

NextPc(l) == Flow[(CHOOSE i \in 1..Len(Flow) : Flow[i] = l) + 1]

\* f"/zenml/{deployment.pipeline.name}/{orchestrator_run_name}"
DatabricksDirectory(dep, rn) == <<"/zenml/">> \o dep.pipeline_name \o <<"/">> \o rn

\* f"{databricks_directory}/{wheel_path.rsplit('/', 1)[-1]}"
DatabricksWheelPath(dep, rn) == DatabricksDirectory(dep, rn) \o <<"/">> \o WheelFileName

\* an exception wrapped in the driver's own error kind
Wrapped(e) == [type |-> "SubmissionError", op |-> e.op]

\* no statement of prepare_or_run_pipeline or _upload_and_run_pipeline is inside
\* a try: the exception a call raises is the exception the caller gets
Propagated(e) == e

Raise(p, e) ==
    /\ pc' = [pc EXCEPT ![p] = "raised"]
    /\ error' = [error EXCEPT ![p] = Propagated(e)]

Goto(p) == pc' = [pc EXCEPT ![p] = NextPc(pc[p])]

\* if Environment.in_notebook(): raise RuntimeError
CheckNotebook(p) ==
    /\ pc[p] = "check_notebook"
    /\ IF notebook[p]
       THEN Raise(p, [type |-> "RuntimeError", op |-> "check_notebook"])
       ELSE Goto(p) /\ UNCHANGED error
    /\ UNCHANGED <<methodVars, deploymentVars, integrationVars>>
    /\ UNCHANGED <<deployment, environment, notebook, run_name, temp_dir, wheel_path,
                   wheel_copied, file_bytes, step_idx, tasks, result, calls,
                   pipeline_dir, remote_dirs, remote_files, jobs>>

\* orchestrator_run_name = get_orchestrator_run_name(pipeline_name=...)
GetRunName(p) ==
    /\ pc[p] = "run_name"
    /\ \E s \in RunSuffixes :
         run_name' = [run_name EXCEPT ![p] = deployment[p].pipeline_name \o <<"_", s>>]
    /\ Goto(p)
    /\ UNCHANGED <<methodVars, deploymentVars, integrationVars>>
    /\ UNCHANGED <<deployment, environment, notebook, temp_dir, wheel_path,
                   wheel_copied, file_bytes, step_idx, tasks, error, result, calls,
                   pipeline_dir, remote_dirs, remote_files, jobs>>

\* fileio.makedirs(self.pipeline_directory)
Makedirs(p) ==
    /\ pc[p] = "makedirs"
    /\ pipeline_dir' = TRUE
    /\ Goto(p)
    /\ UNCHANGED <<methodVars, deploymentVars, integrationVars>>
    /\ UNCHANGED <<deployment, environment, notebook, run_name, temp_dir, wheel_path,
                   wheel_copied, file_bytes, step_idx, tasks, error, result, calls,
                   remote_dirs, remote_files, jobs>>

\* repository_temp_dir = self.copy_repository_to_temp_dir_and_add_setup_py()
CopyRepository(p) ==
    /\ pc[p] = "copy_repository"
    /\ temp_dir' = [temp_dir EXCEPT ![p] = "exists"]
    /\ Goto(p)
    /\ UNCHANGED <<methodVars, deploymentVars, integrationVars>>
    /\ UNCHANGED <<deployment, environment, notebook, run_name, wheel_path,
                   wheel_copied, file_bytes, step_idx, tasks, error, result, calls,
                   pipeline_dir, remote_dirs, remote_files, jobs>>

\* wheel_path = self.create_wheel(temp_dir=repository_temp_dir)
CreateWheel(p) ==
    /\ pc[p] = "create_wheel"
    /\ \E loc \in WheelLocations : wheel_path' = [wheel_path EXCEPT ![p] = loc]
    /\ Goto(p)
    /\ UNCHANGED <<methodVars, deploymentVars, integrationVars>>
    /\ UNCHANGED <<deployment, environment, notebook, run_name, temp_dir,
                   wheel_copied, file_bytes, step_idx, tasks, error, result, calls,
                   pipeline_dir, remote_dirs, remote_files, jobs>>

\* fileio.copy(wheel_path, pipeline_wheel_path, overwrite=True)
CopyWheel(p) ==
    /\ pc[p] = "copy_wheel"
    /\ wheel_copied' = [wheel_copied EXCEPT ![p] = TRUE]
    /\ Goto(p)
    /\ UNCHANGED <<methodVars, deploymentVars, integrationVars>>
    /\ UNCHANGED <<deployment, environment, notebook, run_name, temp_dir, wheel_path,
                   file_bytes, step_idx, tasks, error, result, calls,
                   pipeline_dir, remote_dirs, remote_files, jobs>>

\* fileio.rmtree(repository_temp_dir)
Rmtree(p) ==
    /\ pc[p] = "rmtree"
    /\ temp_dir' = [temp_dir EXCEPT ![p] = "removed"]
    /\ Goto(p)
    /\ UNCHANGED <<methodVars, deploymentVars, integrationVars>>
    /\ UNCHANGED <<deployment, environment, notebook, run_name, wheel_path,
                   wheel_copied, file_bytes, step_idx, tasks, error, result, calls,
                   pipeline_dir, remote_dirs, remote_files, jobs>>

\* a local call (filesystem, wheel build) raises: the exception leaves
\* prepare_or_run_pipeline at once, nothing is undone
LocalCallRaises(p) ==
    /\ pc[p] \in {"makedirs", "copy_repository", "create_wheel", "copy_wheel", "rmtree"}
    /\ Raise(p, Native(pc[p]))
    /\ UNCHANGED <<methodVars, deploymentVars, integrationVars>>
    /\ UNCHANGED <<deployment, environment, notebook, run_name, temp_dir, wheel_path,
                   wheel_copied, file_bytes, step_idx, tasks, result, calls,
                   pipeline_dir, remote_dirs, remote_files, jobs>>

Called(p, op, ok) == calls' = [calls EXCEPT ![p] = Append(@, [op |-> op, ok |-> ok])]

\* databricks_client.files.create_directory(databricks_directory)
CreateDirectory(p) ==
    /\ pc[p] = "create_directory"
    /\ Called(p, "create_directory", TRUE)
    /\ remote_dirs' = remote_dirs \cup {DatabricksDirectory(deployment[p], run_name[p])}
    /\ Goto(p)
    /\ UNCHANGED <<methodVars, deploymentVars, integrationVars>>
    /\ UNCHANGED <<deployment, environment, notebook, run_name, temp_dir, wheel_path,
                   wheel_copied, file_bytes, step_idx, tasks, error, result,
                   pipeline_dir, remote_files, jobs>>

\* with fileio.open(wheel_path, "rb") as file: file_bytes = file.read()
OpenWheel(p) ==
    /\ pc[p] = "open_wheel"
    /\ IF wheel_path[p] = "temp" /\ temp_dir[p] = "removed"
       THEN /\ Raise(p, [type |-> "FileNotFoundError", op |-> "open_wheel"])
            /\ UNCHANGED file_bytes
       ELSE /\ file_bytes' = [file_bytes EXCEPT ![p] = TRUE]
            /\ Goto(p)
            /\ UNCHANGED error
    /\ UNCHANGED <<methodVars, deploymentVars, integrationVars>>
    /\ UNCHANGED <<deployment, environment, notebook, run_name, temp_dir, wheel_path,
                   wheel_copied, step_idx, tasks, result, calls,
                   pipeline_dir, remote_dirs, remote_files, jobs>>

\* databricks_client.files.upload(databricks_wheel_path, binary_data, overwrite=True)
Upload(p) ==
    /\ pc[p] = "upload"
    /\ Called(p, "upload", TRUE)
    /\ remote_files' = remote_files \cup {DatabricksWheelPath(deployment[p], run_name[p])}
    /\ Goto(p)
    /\ UNCHANGED <<methodVars, deploymentVars, integrationVars>>
    /\ UNCHANGED <<deployment, environment, notebook, run_name, temp_dir, wheel_path,
                   wheel_copied, file_bytes, step_idx, tasks, error, result,
                   pipeline_dir, remote_dirs, jobs>>

\* one iteration of the loop of _construct_databricks_pipeline
TranslateStep(p) ==
    /\ pc[p] = "translate"
    /\ step_idx[p] <= Len(deployment[p].step_configurations)
    /\ LET step == deployment[p].step_configurations[step_idx[p]]
       IN  IF step.docker_settings = "malformed"
           THEN /\ Raise(p, Native("gather_requirements_files"))
                /\ UNCHANGED <<tasks, step_idx>>
           ELSE /\ tasks' = [tasks EXCEPT
                               ![p] = Append(@, TaskOf(deployment[p], environment[p], step))]
                /\ step_idx' = [step_idx EXCEPT ![p] = @ + 1]
                /\ UNCHANGED <<pc, error>>
    /\ UNCHANGED <<methodVars, deploymentVars, integrationVars>>
    /\ UNCHANGED <<deployment, environment, notebook, run_name, temp_dir, wheel_path,
                   wheel_copied, file_bytes, result, calls,
                   pipeline_dir, remote_dirs, remote_files, jobs>>

\* return tasks
TranslateReturn(p) ==
    /\ pc[p] = "translate"
    /\ step_idx[p] > Len(deployment[p].step_configurations)
    /\ Goto(p)
    /\ UNCHANGED <<methodVars, deploymentVars, integrationVars>>
    /\ UNCHANGED <<deployment, environment, notebook, run_name, temp_dir, wheel_path,
                   wheel_copied, file_bytes, step_idx, tasks, error, result, calls,
                   pipeline_dir, remote_dirs, remote_files, jobs>>

\* what jobs.create does with a name: a new name gets a new job; for a name
\* that has a job the backend either returns that job or reports a conflict
CreateOutcomes(name) ==
    IF \E j \in jobs : j.name = name THEN {"deduplicated", "conflict"} ELSE {"created"}

\* the conflict error of the backend
BackendConflict == [type |-> "ResourceConflict", op |-> "jobs_create"]

\* _upload_and_run_pipeline: databricks_client.jobs.create(name=..., tasks=...);
\* prepare_or_run_pipeline then returns None
JobsCreate(p) ==
    /\ pc[p] = "jobs_create"
    /\ \E outcome \in CreateOutcomes(run_name[p]) :
         IF outcome = "conflict"
         THEN /\ Called(p, "jobs_create", FALSE)
              /\ Raise(p, BackendConflict)
              /\ UNCHANGED <<jobs, result>>
         ELSE /\ Called(p, "jobs_create", TRUE)
              /\ jobs' = IF outcome = "created"
                         THEN jobs \cup {[job_id |-> Cardinality(jobs) + 1,
                                          name |-> run_name[p],
                                          tasks |-> tasks[p], submitter |-> p]}
                         ELSE jobs
              /\ result' = [result EXCEPT ![p] = "None"]
              /\ Goto(p)
              /\ UNCHANGED error
    /\ UNCHANGED <<methodVars, deploymentVars, integrationVars>>
    /\ UNCHANGED <<deployment, environment, notebook, run_name, temp_dir, wheel_path,
                   wheel_copied, file_bytes, step_idx, tasks,
                   pipeline_dir, remote_dirs, remote_files>>

\* a remote call raises: the SDK's exception leaves prepare_or_run_pipeline
RemoteCallRaises(p) ==
    /\ pc[p] \in {"create_directory", "upload", "jobs_create"}
    /\ Called(p, pc[p], FALSE)
    /\ Raise(p, Native(pc[p]))
    /\ UNCHANGED <<methodVars, deploymentVars, integrationVars>>
    /\ UNCHANGED <<deployment, environment, notebook, run_name, temp_dir, wheel_path,
                   wheel_copied, file_bytes, step_idx, tasks, result,
                   pipeline_dir, remote_dirs, remote_files, jobs>>

Next ==
    \E p \in Procs :
        \/ CheckNotebook(p)
        \/ GetRunName(p)
        \/ Makedirs(p)
        \/ CopyRepository(p)
        \/ CreateWheel(p)
        \/ CopyWheel(p)
        \/ Rmtree(p)
        \/ LocalCallRaises(p)
        \/ CreateDirectory(p)
        \/ OpenWheel(p)
        \/ Upload(p)
        \/ TranslateStep(p)
        \/ TranslateReturn(p)
        \/ JobsCreate(p)
        \/ RemoteCallRaises(p)

\* an Optional[str]: <<>> is None, <<text>> a str
None == <<>>

\* no call of get_orchestrator_run_id was made
NoRunId == [kind |-> "pending", value |-> None, environ |-> <<>>]

\* no validation was made
NoValidation == [kind |-> "pending", ok |-> TRUE, message |-> <<>>, stack |-> <<>>]

\* no process asks for its run id, no stack is validated
NoMethodCall ==
    /\ environ = <<>>
    /\ run_id = NoRunId
    /\ stack = <<>>
    /\ validation = NoValidation

\* get_stack() was not called
NoStackFound == [kind |-> "pending", value |-> None]

\* no stack deployment object exists
NoStackDeployment ==
    /\ now = 0
    /\ stacks = <<>>
    /\ date_start = 0
    /\ found = NoStackFound
    /\ listed = <<>>
    /\ seen = {}
    /\ relisted = {}

\* no EventSourceRequest
NoRequest == [plugin |-> "none", configuration |-> {}]

\* no EventSourceResponse
NoResponse == [id |-> 0, configuration |-> {}]

\* create_event_source() was not called
NoEventSource == [kind |-> "pending", request |-> NoRequest, value |-> NoResponse]

\* no schema
NoSchema == [title |-> "none", required |-> {}]

\* no classmethod of a flavor was called
NoSchemas ==
    [kind |-> "pending", flavor |-> "none", plugin_type |-> "none",
     source_config_schema |-> NoSchema, filter_config_schema |-> NoSchema]

\* no plugin is used
NoPluginCall ==
    /\ store_calls = <<>>
    /\ event_source = NoEventSource
    /\ schemas = NoSchemas

\* the wrapper did not leave yet
NoOutcome == [kind |-> "pending", value |-> "none"]

\* no wrapped step runs
NoTracking ==
    /\ tracking = [tracker |-> "none", active_run |-> FALSE, nested |-> FALSE]
    /\ tpc = "absent"
    /\ entered = <<>>
    /\ events = <<>>
    /\ wrapped = NoOutcome

\* no submission is made
NoSubmission ==
    /\ deployment = [p \in Procs |-> NoDeployment]
    /\ environment = [p \in Procs |-> <<>>]
    /\ notebook = [p \in Procs |-> FALSE]
    /\ pc = [p \in Procs |-> "absent"]

InitCommon ==
    /\ run_name = [p \in Procs |-> <<>>]
    /\ temp_dir = [p \in Procs |-> "none"]
    /\ wheel_path = [p \in Procs |-> "unset"]
    /\ wheel_copied = [p \in Procs |-> FALSE]
    /\ file_bytes = [p \in Procs |-> FALSE]
    /\ step_idx = [p \in Procs |-> 1]
    /\ tasks = [p \in Procs |-> <<>>]
    /\ error = [p \in Procs |-> NoError]
    /\ result = [p \in Procs |-> "pending"]
    /\ calls = [p \in Procs |-> <<>>]
    /\ pipeline_dir = FALSE
    /\ remote_dirs = {}
    /\ remote_files = {}
    /\ jobs = {}

\* one submission; its arguments range over Deployments and Environments
Init ==
    /\ \E dep \in Deployments, env \in Environments, nb \in BOOLEAN :
         /\ deployment = [p \in Procs |-> IF p = 1 THEN dep ELSE NoDeployment]
         /\ environment = [p \in Procs |-> IF p = 1 THEN env ELSE <<>>]
         /\ notebook = [p \in Procs |-> IF p = 1 THEN nb ELSE FALSE]
    /\ pc = [p \in Procs |-> IF p = 1 THEN Flow[1] ELSE "absent"]
    /\ InitCommon
    /\ NoMethodCall
    /\ NoPluginCall
    /\ NoTracking
    /\ NoStackDeployment

Spec == Init /\ [][Next]_vars

\* two submissions, of any two deployments, interleaved against one backend
InitShared ==
    /\ deployment \in [Procs -> SharedBackendDeployments]
    /\ environment = [p \in Procs |-> << <<"A", "1">> >>]
    /\ notebook = [p \in Procs |-> FALSE]
    /\ pc = [p \in Procs |-> Flow[1]]
    /\ InitCommon
    /\ NoMethodCall
    /\ NoPluginCall
    /\ NoTracking
    /\ NoStackDeployment

SpecShared == InitShared /\ [][Next]_vars

(***************************** orchestrator methods ***********************)
\* names and values of environment variables
EnvironNames == {ENV_ZENML_DATABRICKS_ORCHESTRATOR_RUN_ID, "HOME"}

EnvironValues == {"", "run-1"}

Environs == UNION {[names -> EnvironValues] : names \in SUBSET EnvironNames}

\* os.getenv(name)
os_getenv(env, name) == IF name \in DOMAIN env THEN <<env[name]>> ELSE None

\* get_orchestrator_run_id: return os.getenv(ENV_ZENML_DATABRICKS_ORCHESTRATOR_RUN_ID)
get_orchestrator_run_id(env) ==
    [kind |-> "returned",
     value |-> os_getenv(env, ENV_ZENML_DATABRICKS_ORCHESTRATOR_RUN_ID),
     environ |-> env]

\* component types, in the order a stack lists them
ComponentTypes ==
    <<"orchestrator", "artifact_store", "container_registry", "image_builder",
      "experiment_tracker">>

\* stacks of up to MaxComponents components, each one local or remote
ValidatedStacks ==
    UNION {{[i \in 1..n |-> [name |-> <<"my_", ComponentTypes[i]>>,
                             type |-> ComponentTypes[i],
                             is_local |-> loc[i]]] : loc \in [1..n -> BOOLEAN]} :
              n \in 0..MaxComponents}

\* the message of a failed validation
LocalComponentMessage(component) ==
    <<"The Databricks orchestrator runs pipelines remotely, but the '">>
        \o component.name \o <<"' ", component.type, " is a local stack component">>

RECURSIVE ValidateLoop(_)
\* for component in stack.components.values(): the first statement of the body is
\* `continue`, so the check of component.config.is_local and the
\* `return False, ...` after it never run
ValidateLoop(components) ==
    IF Len(components) = 0 THEN <<TRUE, <<>> >>
    ELSE ValidateLoop(Tail(components))

\* _validate_remote_components(stack)
validate_remote_components(st) ==
    [kind |-> "returned", ok |-> ValidateLoop(st)[1], message |-> ValidateLoop(st)[2],
     stack |-> st]

\* os.environ[name] = value
Putenv ==
    /\ \E name \in EnvironNames, value \in EnvironValues :
         environ' = [n \in DOMAIN environ \cup {name} |->
                        IF n = name THEN value ELSE environ[n]]
    /\ UNCHANGED <<run_id, stack, validation, submissionVars, deploymentVars, integrationVars>>

\* del os.environ[name]
Unsetenv ==
    /\ \E name \in DOMAIN environ :
         environ' = [n \in DOMAIN environ \ {name} |-> environ[n]]
    /\ UNCHANGED <<run_id, stack, validation, submissionVars, deploymentVars, integrationVars>>

\* a call of get_orchestrator_run_id()
GetOrchestratorRunId ==
    /\ run_id' = get_orchestrator_run_id(environ)
    /\ UNCHANGED <<environ, stack, validation, submissionVars, deploymentVars, integrationVars>>

\* the stack validator runs the orchestrator's custom validation function
ValidateStack ==
    /\ \E st \in ValidatedStacks :
         /\ stack' = st
         /\ validation' = validate_remote_components(st)
    /\ UNCHANGED <<environ, run_id, submissionVars, deploymentVars, integrationVars>>

NextMethods == Putenv \/ Unsetenv \/ GetOrchestratorRunId \/ ValidateStack

InitMethods ==
    /\ environ \in Environs
    /\ run_id = NoRunId
    /\ stack = <<>>
    /\ validation = NoValidation
    /\ NoSubmission
    /\ InitCommon
    /\ NoStackDeployment
    /\ NoPluginCall
    /\ NoTracking

SpecMethods == InitMethods /\ [][NextMethods]_vars

(***************************** stack deployment ***************************)
StackComponentTypes == {"artifact_store", "orchestrator", "container_registry"}

\* the flavors get_stack asks for
ExpectedFlavor(type) ==
    CASE type = "artifact_store" -> "s3"
      [] type = "orchestrator" -> "sagemaker"
      [] type = "container_registry" -> "aws"

\* a component of the expected flavor, linked to a service connector
Linked(type) == [flavor |-> ExpectedFlavor(type), connector |-> <<"aws-connector">>]

\* the ways the components of one type differ from the deployed ones
Deviations == {"absent", "unlinked", "other_flavor", "two"}

Deviant(type, how) ==
    CASE how = "unlinked" -> << [flavor |-> ExpectedFlavor(type), connector |-> None] >>
      [] how = "other_flavor" -> << [flavor |-> "local", connector |-> <<"aws-connector">>] >>
      [] how = "two" -> << Linked(type), Linked(type) >>

\* stack.components: component type -> list of components
FullAwsStack == [t \in StackComponentTypes |-> << Linked(t) >>]

DeviantStack(type, how) ==
    [t \in (IF how = "absent" THEN StackComponentTypes \ {type} ELSE StackComponentTypes)
        |-> IF t = type THEN Deviant(type, how) ELSE << Linked(t) >>]

StackKinds ==
    {FullAwsStack} \cup {DeviantStack(t, how) : t \in StackComponentTypes, how \in Deviations}

\* the stacks users register: the deployed one, one failing the first check of
\* the first call and one failing the last check of the last call
RegisteredKinds ==
    {FullAwsStack,
     DeviantStack("artifact_store", "absent"),
     DeviantStack("container_registry", "unlinked")}

\* date_start.replace(microsecond=0)
Truncate(t) == (t \div TicksPerSecond) * TicksPerSecond

\* check_component without the test of the connector
CheckComponentUnlinked(components, component_type, expected_flavor) ==
    IF component_type \notin DOMAIN components THEN FALSE
    ELSE IF Len(components[component_type]) # 1 THEN FALSE
    ELSE IF components[component_type][1].flavor # expected_flavor THEN FALSE
    ELSE TRUE

\* check_component(component_type, expected_flavor) on stack.components
check_component(components, component_type, expected_flavor) ==
    IF component_type \notin DOMAIN components THEN FALSE
    ELSE IF Len(components[component_type]) # 1 THEN FALSE
    ELSE IF components[component_type][1].flavor # expected_flavor THEN FALSE
    ELSE IF components[component_type][1].connector = None THEN FALSE
    ELSE TRUE

RECURSIVE FindStack(_)
\* for stack in stacks.items: ... return stack; falls off the loop with None
FindStack(items) ==
    IF Len(items) = 0 THEN None
    ELSE LET components == stacks[items[1]].components
         IN  IF ~check_component(components, "artifact_store", "s3")
             THEN FindStack(Tail(items))
             ELSE IF ~check_component(components, "orchestrator", "sagemaker")
             THEN FindStack(Tail(items))
             ELSE IF ~check_component(components, "container_registry", "aws")
             THEN FindStack(Tail(items))
             ELSE <<items[1]>>

Range(seq) == {seq[i] : i \in 1..Len(seq)}

\* the stacks the filter created="gt:..." selects
CreatedAfter(t) == {i \in 1..Len(stacks) : stacks[i].created > t}

\* the pages list_stacks(created=gt:t, sort_by="desc:created", size=PageSize) may
\* return: the newest selected stacks, newest first, stacks created at the same
\* tick in any order
Pages(t) ==
    LET selected == CreatedAfter(t)
        n == IF Cardinality(selected) < PageSize THEN Cardinality(selected) ELSE PageSize
    IN  {items \in [1..n -> selected] :
            /\ \A i, j \in 1..n : i < j =>
                   /\ items[i] # items[j]
                   /\ stacks[items[i]].created >= stacks[items[j]].created
            /\ \A i \in 1..n : \A k \in selected \ Range(items) :
                   stacks[items[i]].created >= stacks[k].created}

\* time passes
Tick ==
    /\ now < MaxTime
    /\ now' = now + 1
    /\ UNCHANGED <<stacks, date_start, found, listed, seen, relisted,
                   submissionVars, methodVars, integrationVars>>

\* a stack is registered in the store (StackSchema.creation_date = now)
RegisterStack ==
    /\ Len(stacks) < MaxStacks
    /\ \E kind \in RegisteredKinds :
         stacks' = Append(stacks, [created |-> now, components |-> kind])
    /\ UNCHANGED <<now, date_start, found, listed, seen, relisted,
                   submissionVars, methodVars, integrationVars>>

\* AWSZenMLCloudStackDeployment.get_stack()
GetStack ==
    /\ \E items \in Pages(Truncate(date_start)) :
         /\ listed' = items
         /\ IF Len(items) = 0
            THEN /\ found' = [kind |-> "returned", value |-> None]
                 /\ UNCHANGED date_start
            ELSE /\ date_start' = stacks[items[1]].created
                 /\ found' = [kind |-> "returned", value |-> FindStack(items)]
         /\ relisted' = Range(items) \cap seen
         /\ seen' = seen \cup Range(items)
    /\ UNCHANGED <<now, stacks, submissionVars, methodVars, integrationVars>>

NextStackDeployment == Tick \/ RegisterStack \/ GetStack

\* AWSZenMLCloudStackDeployment.__init__: date_start = utcnow(); the store may
\* hold a stack registered earlier
InitStackDeployment ==
    /\ now \in 0..(TicksPerSecond - 1)
    /\ date_start = now
    /\ stacks \in {<<>>} \cup {<< [created |-> 0, components |-> kind] >> : kind \in RegisteredKinds}
    /\ found = NoStackFound
    /\ listed = <<>>
    /\ seen = {}
    /\ relisted = {}
    /\ NoSubmission
    /\ InitCommon
    /\ NoMethodCall
    /\ NoPluginCall
    /\ NoTracking

SpecStackDeployment == InitStackDeployment /\ [][NextStackDeployment]_vars

\* a get_stack call whose page holds stack i
GetStackListing(i) == GetStack /\ i \in Range(listed')

\* the CLI keeps calling get_stack until a stack is found; the store does not
\* forever order stacks created at the same tick so that one stays off the page
SpecStackDeploymentPolled ==
    /\ SpecStackDeployment
    /\ WF_vars(GetStack)
    /\ \A i \in 1..MaxStacks : SF_vars(GetStackListing(i))

(***************************** event sources ******************************)
\* the configuration classes: a name and the required fields, all of type str
EventSourceConfig == [name |-> "EventSourceConfig", fields |-> {}]

GithubWebhookEventSourceConfiguration ==
    [name |-> "GithubWebhookEventSourceConfiguration", fields |-> {"webhook_secret"}]

GithubWebhookEventFilterConfiguration ==
    [name |-> "GithubWebhookEventFilterConfiguration", fields |-> {"repo"}]

\* the plugins and their config_class property
EventSourcePlugins ==
    {[name |-> "BaseEventSourcePlugin", config_class |-> EventSourceConfig],
     [name |-> "GithubWebhookEventSourcePlugin",
      config_class |-> GithubWebhookEventSourceConfiguration]}

\* event_source.configuration: a dict, as a set of <<key, kind of value>>
Configurations ==
    {{}, {<<"webhook_secret", "str">>}, {<<"webhook_secret", "dict">>},
     {<<"webhook_secret", "str">>, <<"url", "str">>}}

\* config_class(**configuration): pydantic builds the object or raises
\* ValidationError, a ValueError
Construct(config_class, configuration) ==
    IF /\ \A f \in config_class.fields : \E kv \in configuration : kv[1] = f
       /\ \A kv \in configuration : kv[1] \in config_class.fields => kv[2] = "str"
    THEN "constructed"
    ELSE "ValueError"

\* the configuration is never looked at
NeverFails(plugin, request) == "ok"

\* _fail_if_event_source_configuration_invalid(event_source)
fail_if_event_source_configuration_invalid(plugin, request) ==
    IF Construct(plugin.config_class, request.configuration) = "ValueError"
    THEN "ValueError"
    ELSE "ok"

\* zen_store.create_event_source(event_source): the response, or an exception
StoreOutcomes(request) ==
    {[kind |-> "returned", request |-> request,
      value |-> [id |-> Len(store_calls) + 1, configuration |-> request.configuration]],
     [kind |-> "StoreError", request |-> request, value |-> NoResponse]}

\* BaseEventSourcePlugin.create_event_source(event_source)
CreateEventSource ==
    /\ \E plugin \in EventSourcePlugins, configuration \in Configurations :
         LET request == [plugin |-> plugin.name, configuration |-> configuration]
         IN  IF fail_if_event_source_configuration_invalid(plugin, request) = "ValueError"
             THEN /\ event_source' =
                        [kind |-> "ValueError", request |-> request, value |-> NoResponse]
                  /\ UNCHANGED store_calls
             ELSE /\ Len(store_calls) < MaxEventSources
                  /\ store_calls' = Append(store_calls, request)
                  /\ event_source' \in StoreOutcomes(request)
    /\ UNCHANGED <<schemas, trackingVars, submissionVars, methodVars, deploymentVars>>

\* json.loads(cls.schema_json())
Schema(config_class) == [title |-> config_class.name, required |-> config_class.fields]

GithubWebhookEventSourceFlavor ==
    [FLAVOR |-> "github", TYPE |-> "webhook_event",
     EVENT_SOURCE_CONFIG_CLASS |-> GithubWebhookEventSourceConfiguration,
     EVENT_FILTER_CONFIG_CLASS |-> GithubWebhookEventFilterConfiguration]

EventSourceFlavors == {GithubWebhookEventSourceFlavor}

\* BaseEventSourcePluginFlavor.get_event_filter_config_schema()
get_event_filter_config_schema(cls) == Schema(cls.EVENT_SOURCE_CONFIG_CLASS)

\* BaseEventSourcePluginFlavor.get_event_source_config_schema()
get_event_source_config_schema(cls) == Schema(cls.EVENT_FILTER_CONFIG_CLASS)

\* BaseEventSourcePluginFlavor.get_plugin_flavor_response_model()
get_plugin_flavor_response_model(cls) ==
    [kind |-> "get_plugin_flavor_response_model",
     flavor |-> cls.FLAVOR,
     plugin_type |-> cls.TYPE,
     source_config_schema |-> get_event_source_config_schema(cls),
     filter_config_schema |-> get_event_filter_config_schema(cls)]

GetEventFilterConfigSchema ==
    /\ \E cls \in EventSourceFlavors :
         schemas' = [kind |-> "get_event_filter_config_schema", flavor |-> cls.FLAVOR,
                     plugin_type |-> "none", source_config_schema |-> NoSchema,
                     filter_config_schema |-> get_event_filter_config_schema(cls)]
    /\ UNCHANGED <<store_calls, event_source, trackingVars,
                   submissionVars, methodVars, deploymentVars>>

GetEventSourceConfigSchema ==
    /\ \E cls \in EventSourceFlavors :
         schemas' = [kind |-> "get_event_source_config_schema", flavor |-> cls.FLAVOR,
                     plugin_type |-> "none", filter_config_schema |-> NoSchema,
                     source_config_schema |-> get_event_source_config_schema(cls)]
    /\ UNCHANGED <<store_calls, event_source, trackingVars,
                   submissionVars, methodVars, deploymentVars>>

GetPluginFlavorResponseModel ==
    /\ \E cls \in EventSourceFlavors : schemas' = get_plugin_flavor_response_model(cls)
    /\ UNCHANGED <<store_calls, event_source, trackingVars,
                   submissionVars, methodVars, deploymentVars>>

NextEventSources ==
    \/ CreateEventSource
    \/ GetEventFilterConfigSchema
    \/ GetEventSourceConfigSchema
    \/ GetPluginFlavorResponseModel

InitEventSources ==
    /\ NoPluginCall
    /\ NoTracking
    /\ NoSubmission
    /\ InitCommon
    /\ NoMethodCall
    /\ NoStackDeployment

SpecEventSources == InitEventSources /\ [][NextEventSources]_vars

(***************************** mlflow step entrypoint **********************)
\* the wrapper with the nested runs exited in the order they were entered, and
\* the body of a step that is not nested run before the run is entered
TrackingFlowExitsInEntryOrder(nested) ==
    IF nested
    THEN << "check_tracker", "check_active_run", "check_nested_run", "enter_run",
            "enter_nested_run", "body", "exit_run", "exit_nested_run", "leave" >>
    ELSE << "check_tracker", "check_active_run", "body", "enter_run", "exit_run",
            "leave" >>

\* the statements of wrapper, in program order
TrackingFlow(nested) ==
    IF nested
    THEN << "check_tracker", "check_active_run", "check_nested_run", "enter_run",
            "enter_nested_run", "body", "exit_nested_run", "exit_run", "leave" >>
    ELSE << "check_tracker", "check_active_run", "enter_run", "body", "exit_run",
            "leave" >>

TrackingNext(l) ==
    LET flow == TrackingFlow(tracking.nested)
    IN  flow[(CHOOSE i \in 1..Len(flow) : flow[i] = l) + 1]

\* the active stack's experiment tracker, the run it has and the decorator's flag
Trackings ==
    {[tracker |-> t, active_run |-> r, nested |-> n] :
        t \in {"mlflow", "other", "none"}, r \in BOOLEAN, n \in BOOLEAN}

\* experiment_tracker.active_nested_run: a run whenever the parent run is active
active_nested_run(trk) == trk.active_run

\* an exception leaves the wrapper from outside every with block
TrackingRaise(e) ==
    /\ wrapped' = [kind |-> "raised", value |-> e]
    /\ tpc' = "left"

\* if not isinstance(experiment_tracker, MLFlowExperimentTracker): raise ...
CheckTracker ==
    /\ tpc = "check_tracker"
    /\ IF tracking.tracker # "mlflow"
       THEN TrackingRaise("missing_mlflow_experiment_tracker")
       ELSE tpc' = TrackingNext(tpc) /\ UNCHANGED wrapped
    /\ UNCHANGED <<tracking, entered, events, pluginVars,
                   submissionVars, methodVars, deploymentVars>>

\* if not active_run: raise RuntimeError
CheckActiveRun ==
    /\ tpc = "check_active_run"
    /\ IF ~tracking.active_run
       THEN TrackingRaise("RuntimeError")
       ELSE tpc' = TrackingNext(tpc) /\ UNCHANGED wrapped
    /\ UNCHANGED <<tracking, entered, events, pluginVars,
                   submissionVars, methodVars, deploymentVars>>

\* if not active_nested_run: raise RuntimeError
CheckNestedRun ==
    /\ tpc = "check_nested_run"
    /\ IF ~active_nested_run(tracking)
       THEN TrackingRaise("RuntimeError")
       ELSE tpc' = TrackingNext(tpc) /\ UNCHANGED wrapped
    /\ UNCHANGED <<tracking, entered, events, pluginVars,
                   submissionVars, methodVars, deploymentVars>>

\* with active_run:
EnterRun ==
    /\ tpc = "enter_run"
    /\ entered' = Append(entered, "run")
    /\ events' = Append(events, "enter_run")
    /\ tpc' = TrackingNext(tpc)
    /\ UNCHANGED <<tracking, wrapped, pluginVars,
                   submissionVars, methodVars, deploymentVars>>

\* with active_nested_run:
EnterNestedRun ==
    /\ tpc = "enter_nested_run"
    /\ entered' = Append(entered, "nested_run")
    /\ events' = Append(events, "enter_nested_run")
    /\ tpc' = TrackingNext(tpc)
    /\ UNCHANGED <<tracking, wrapped, pluginVars,
                   submissionVars, methodVars, deploymentVars>>

\* func(*args, **kwargs) begins
BodyBegins ==
    /\ tpc = "body"
    /\ events' = Append(events, "body")
    /\ tpc' = "in_body"
    /\ UNCHANGED <<tracking, entered, wrapped, pluginVars,
                   submissionVars, methodVars, deploymentVars>>

\* the step body logs to mlflow
BodyLogs ==
    /\ tpc = "in_body"
    /\ Len(SelectSeq(events, LAMBDA ev : ev = "log")) < MaxLogs
    /\ events' = Append(events, "log")
    /\ UNCHANGED <<tracking, tpc, entered, wrapped, pluginVars,
                   submissionVars, methodVars, deploymentVars>>

\* func(*args, **kwargs) returns or raises: the with blocks are left
BodyEnds ==
    /\ tpc = "in_body"
    /\ \E how \in {[kind |-> "returning", value |-> "result"],
                    [kind |-> "raising", value |-> "body_error"]} : wrapped' = how
    /\ events' = Append(events, "body_ends")
    /\ tpc' = TrackingNext("body")
    /\ UNCHANGED <<tracking, entered, pluginVars,
                   submissionVars, methodVars, deploymentVars>>

\* run.__exit__: the run is ended; ending it may raise
ExitOf(run, event) ==
    /\ entered' = SelectSeq(entered, LAMBDA r : r # run)
    /\ events' = Append(events, event)
    /\ \/ UNCHANGED wrapped
       \/ wrapped' = [kind |-> "raising", value |-> "exit_error"]
    /\ tpc' = TrackingNext(tpc)

\* end of `with active_nested_run:`
ExitNestedRun ==
    /\ tpc = "exit_nested_run"
    /\ ExitOf("nested_run", "exit_nested_run")
    /\ UNCHANGED <<tracking, pluginVars, submissionVars, methodVars, deploymentVars>>

\* end of `with active_run:`
ExitRun ==
    /\ tpc = "exit_run"
    /\ ExitOf("run", "exit_run")
    /\ UNCHANGED <<tracking, pluginVars, submissionVars, methodVars, deploymentVars>>

\* the value is returned, or the exception propagates, to the caller
Leave ==
    /\ tpc = "leave"
    /\ wrapped' = [kind |-> IF wrapped.kind = "returning" THEN "returned" ELSE "raised",
                   value |-> wrapped.value]
    /\ tpc' = "left"
    /\ UNCHANGED <<tracking, entered, events, pluginVars,
                   submissionVars, methodVars, deploymentVars>>

NextTracking ==
    \/ CheckTracker
    \/ CheckActiveRun
    \/ CheckNestedRun
    \/ EnterRun
    \/ EnterNestedRun
    \/ BodyBegins
    \/ BodyLogs
    \/ BodyEnds
    \/ ExitNestedRun
    \/ ExitRun
    \/ Leave

InitTracking ==
    /\ tracking \in Trackings
    /\ tpc = TrackingFlow(tracking.nested)[1]
    /\ entered = <<>>
    /\ events = <<>>
    /\ wrapped = NoOutcome
    /\ NoPluginCall
    /\ NoSubmission
    /\ InitCommon
    /\ NoMethodCall
    /\ NoStackDeployment

SpecTracking == InitTracking /\ [][NextTracking]_vars

(***************************** properties *********************************)
Submissions == {p \in Procs : pc[p] # "absent"}

Succeeded(p) == pc[p] = "done"

Failed(p) == pc[p] = "raised"

Returned(p) == Succeeded(p) \/ Failed(p)

\* the operations of p's remote calls that returned, in order
RECURSIVE OkOps(_)
OkOps(cs) ==
    IF Len(cs) = 0 THEN <<>>
    ELSE IF cs[1].ok THEN <<cs[1].op>> \o OkOps(Tail(cs)) ELSE OkOps(Tail(cs))

\* C1: in every submission that completes successfully the remote calls are
\* create_directory, then upload, then jobs.create, and whenever jobs.create is
\* invoked an upload has returned before it and a create_directory before that.
C1_UploadThenSubmit ==
    \A p \in Submissions :
        /\ Succeeded(p) =>
               OkOps(calls[p]) = <<"create_directory", "upload", "jobs_create">>
        /\ \A k \in 1..Len(calls[p]) :
               calls[p][k].op = "jobs_create" =>
                   \E i, j \in 1..Len(calls[p]) :
                       /\ i < j /\ j < k
                       /\ calls[p][i] = [op |-> "create_directory", ok |-> TRUE]
                       /\ calls[p][j] = [op |-> "upload", ok |-> TRUE]

C1_Witness ==
    \E p \in Submissions : Succeeded(p) /\ Len(calls[p]) = 3 /\ jobs # {}

\* C2: when the translation of a step fails, the submission has made no remote
\* call: no create_directory, no upload, no jobs.create.
C2_NoRemoteEffectBeforeValidation ==
    \A p \in Submissions :
        (Failed(p) /\ error[p].op = "gather_requirements_files") => calls[p] = <<>>

StepsOf(dep) == {dep.step_configurations[k] : k \in 1..Len(dep.step_configurations)}

\* the upstream relation of a deployment, on step names
UpstreamOf(dep, name) ==
    UNION {{s.upstream_steps[i] : i \in 1..Len(s.upstream_steps)} :
              s \in {x \in StepsOf(dep) : x.name = name}}

RECURSIVE Ancestors(_, _, _)
Ancestors(dep, names, n) ==
    IF n = 0 THEN names
    ELSE Ancestors(dep, names \cup UNION {UpstreamOf(dep, x) : x \in names}, n - 1)

StepNames(dep) == {s.name : s \in StepsOf(dep)}

\* some step transitively depends on itself
Cyclic(dep) ==
    \E s \in StepNames(dep) :
        s \in Ancestors(dep, UpstreamOf(dep, s), Len(dep.step_configurations))

\* some step names an upstream step that is no key of step_configurations
DanglingUpstream(dep) ==
    \E s \in StepNames(dep) : UpstreamOf(dep, s) \ StepNames(dep) # {}

\* C3: for a deployment in which a step transitively depends on itself, the
\* submission does not succeed (it fails with CyclicGraphError) and no task is
\* produced or submitted.
C3_CycleRejected ==
    \A p \in Submissions :
        Cyclic(deployment[p]) =>
            /\ tasks[p] = <<>>
            /\ \A j \in jobs : j.submitter # p
            /\ ~Succeeded(p)

TaskKeys(ts) == {ts[i].task_key : i \in 1..Len(ts)}

DependsOnKeys(ts) == UNION {{ts[i].depends_on[k] : k \in 1..Len(ts[i].depends_on)} :
                               i \in 1..Len(ts)}

\* C4: a deployment with an upstream reference that is no key of
\* step_configurations does not succeed (it fails with UnknownUpstreamError),
\* so every depends_on identifier of a submitted task list is the key of a task
\* of that list.
C4_UnknownUpstreamRejected ==
    /\ \A p \in Submissions : DanglingUpstream(deployment[p]) => ~Succeeded(p)
    /\ \A j \in jobs : DependsOnKeys(j.tasks) \subseteq TaskKeys(j.tasks)

\* the --env argument of a task
EnvArgOf(task) == task.parameters[Len(task.parameters)]

ValueIn(items, key) == (CHOOSE e \in {items[i] : i \in 1..Len(items)} : e[1] = key)[2]

KeysIn(items) == {items[i][1] : i \in 1..Len(items)}

\* C5: the resolved environment of every task holds each key once; the source
\* prefix marker and the orchestrator run id have the injected values also when
\* the caller's environment has the same key; the caller's other keys keep the
\* caller's values.
C5_InjectedEntriesWin ==
    \A p \in Submissions :
        \A n \in 1..Len(tasks[p]) :
            LET resolved == ResolveEnvironment(EnvArgOf(tasks[p][n]))
                caller == environment[p]
                injected == {<<ENV_ZENML_DATABRICKS_SOURCE_PREFIX>>,
                             <<ENV_ZENML_DATABRICKS_ORCHESTRATOR_RUN_ID>>}
            IN  /\ \A i, j \in 1..Len(resolved) :
                       resolved[i][1] = resolved[j][1] => i = j
                /\ KeysIn(resolved) =
                       {<<caller[i][1]>> : i \in 1..Len(caller)} \cup injected
                /\ ValueIn(resolved, <<ENV_ZENML_DATABRICKS_SOURCE_PREFIX>>)
                       = <<"zenmlproject">>
                /\ ValueIn(resolved, <<ENV_ZENML_DATABRICKS_ORCHESTRATOR_RUN_ID>>)
                       = deployment[p].id
                /\ \A i \in 1..Len(caller) :
                       <<caller[i][1]>> \notin injected =>
                           ValueIn(resolved, <<caller[i][1]>>) = <<caller[i][2]>>

C5_Witness ==
    \E p \in Submissions :
        /\ Len(tasks[p]) > 0
        /\ \E i \in 1..Len(environment[p]) :
               /\ environment[p][i][1] = ENV_ZENML_DATABRICKS_ORCHESTRATOR_RUN_ID
               /\ <<environment[p][i][2]>> # deployment[p].id
        /\ ValueIn(ResolveEnvironment(EnvArgOf(tasks[p][1])), <<"A">>) = <<"1">>

\* the translation of p's deployment has returned its task list
Translated(p) ==
    \/ pc[p] \in {"jobs_create", "done"}
    \/ Failed(p) /\ error[p].op = "jobs_create"

C7_TaskKeysDisjoint ==
    /\ \A p, q \in Submissions :
           deployment[p].id # deployment[q].id =>
               (TaskKeys(tasks[p]) \cup DependsOnKeys(tasks[p]))
                   \cap (TaskKeys(tasks[q]) \cup DependsOnKeys(tasks[q])) = {}
    /\ \A i, j \in jobs :
           deployment[i.submitter].id # deployment[j.submitter].id =>
               (TaskKeys(i.tasks) \cup DependsOnKeys(i.tasks))
                   \cap (TaskKeys(j.tasks) \cup DependsOnKeys(j.tasks)) = {}

C7_Witness ==
    \E i, j \in jobs :
        /\ deployment[i.submitter].id # deployment[j.submitter].id
        /\ Len(i.tasks) = 2 /\ Len(j.tasks) = 2
        /\ StepNames(deployment[i.submitter]) = StepNames(deployment[j.submitter])

\* C8: once the repository was copied to the temporary directory, that
\* directory is gone when prepare_or_run_pipeline has returned or raised.
C8_TempDirRemovedOnExit ==
    \A p \in Submissions :
        (Returned(p) /\ temp_dir[p] # "none") => temp_dir[p] = "removed"

\* C9: a failure of create_directory or upload reaches the caller as UploadError,
\* one of jobs.create as SubmissionError, and no remote call follows a failed one.
C9_RemoteFailureNamed ==
    \A p \in Submissions :
        /\ \A k \in 1..Len(calls[p]) : ~calls[p][k].ok => k = Len(calls[p]) /\ Failed(p)
        /\ (Failed(p) /\ error[p].op \in {"create_directory", "upload"}) =>
               error[p].type = "UploadError"
        /\ (Failed(p) /\ error[p].op = "jobs_create") =>
               error[p].type = "SubmissionError"

\* C10: a successful submission has created one job of its run name, has
\* triggered one run of it and has returned a run handle.
C10_OneJobOneRun ==
    \A p \in Submissions :
        Succeeded(p) =>
            /\ Cardinality({j \in jobs : j.submitter = p /\ j.name = run_name[p]}) = 1
            /\ Cardinality({k \in 1..Len(calls[p]) : calls[p][k].op = "run_now"}) = 1
            /\ result[p] # "None"

\* C11: after a successful submission the mapping from the run name to the
\* backend's run handle has been recorded, after the job was created.
C11_RunMappingRecorded ==
    \A p \in Submissions :
        Succeeded(p) =>
            \E k, m \in 1..Len(calls[p]) :
                /\ k < m
                /\ calls[p][k] = [op |-> "jobs_create", ok |-> TRUE]
                /\ calls[p][m] = [op |-> "record_mapping", ok |-> TRUE]

RECURSIVE EdgeCount(_)
EdgeCount(ts) ==
    IF Len(ts) = 0 THEN 0 ELSE Len(ts[1].depends_on) + EdgeCount(Tail(ts))

RECURSIVE UpstreamCount(_)
UpstreamCount(steps) ==
    IF Len(steps) = 0 THEN 0 ELSE Len(steps[1].upstream_steps) + UpstreamCount(Tail(steps))

\* the tasks can be ranked so that every task comes after all it depends on
TopologicalOrderExists(ts) ==
    \E rank \in [1..Len(ts) -> 1..Len(ts)] :
        /\ \A i, j \in 1..Len(ts) : rank[i] = rank[j] => i = j
        /\ \A i \in 1..Len(ts) :
               \A k \in 1..Len(ts[i].depends_on) :
                   \E j \in 1..Len(ts) :
                       ts[j].task_key = ts[i].depends_on[k] /\ rank[j] < rank[i]

\* C14: for a deployment without dangling upstream reference and without cycle,
\* the task list has as many dependency edges as the steps have upstream
\* references, and has a topological order.
C14_EdgesAndTopologicalOrder ==
    \A p \in Submissions :
        (Translated(p) /\ ~DanglingUpstream(deployment[p]) /\ ~Cyclic(deployment[p])) =>
            /\ EdgeCount(tasks[p]) = UpstreamCount(deployment[p].step_configurations)
            /\ TopologicalOrderExists(tasks[p])

\* a step with two upstream steps was translated
C14_Witness ==
    \E p \in Submissions :
        /\ Translated(p)
        /\ ~DanglingUpstream(deployment[p]) /\ ~Cyclic(deployment[p])
        /\ EdgeCount(tasks[p]) = 3

Malformed(dep) == {s \in StepsOf(dep) : s.docker_settings = "malformed"}

\* C15: when a step's settings are malformed, translation ends with
\* InvalidStepSettingsError, every other step has been translated, and no
\* upload was made.
C15_MalformedStepIsolated ==
    \A p \in Submissions :
        (Failed(p) /\ error[p].op = "gather_requirements_files") =>
            /\ error[p].type = "InvalidStepSettingsError"
            /\ Len(tasks[p]) = Cardinality(StepsOf(deployment[p]) \ Malformed(deployment[p]))
            /\ \A k \in 1..Len(calls[p]) : calls[p][k].op # "upload"

\* C18: in a notebook, prepare_or_run_pipeline raises RuntimeError at its first
\* statement: no directory is made, nothing is packaged, no task is built and no
\* remote operation is called.
C18_NotebookRaisesFirst ==
    \A p \in Submissions :
        notebook[p] =>
            /\ pc[p] \in {"check_notebook", "raised"}
            /\ Failed(p) => error[p] = [type |-> "RuntimeError", op |-> "check_notebook"]
            /\ Submissions = {p} => ~pipeline_dir
            /\ temp_dir[p] = "none" /\ wheel_path[p] = "unset" /\ ~wheel_copied[p]
            /\ tasks[p] = <<>> /\ calls[p] = <<>>
            /\ \A j \in jobs : j.submitter # p

C18_Witness ==
    \E p \in Submissions : notebook[p] /\ Failed(p) /\ error[p].type = "RuntimeError"

\* C16: get_orchestrator_run_id raises RuntimeError when the run id variable is
\* not set, returns its value when it is set, and never returns None.
C16_RunIdOrRuntimeError ==
    run_id.kind # "pending" =>
        /\ IF ENV_ZENML_DATABRICKS_ORCHESTRATOR_RUN_ID \in DOMAIN run_id.environ
           THEN /\ run_id.kind = "returned"
                /\ run_id.value = <<run_id.environ[ENV_ZENML_DATABRICKS_ORCHESTRATOR_RUN_ID]>>
           ELSE run_id.kind = "RuntimeError"
        /\ run_id.kind = "returned" => run_id.value # None

\* C17: the validator returns False, with a message naming a local component,
\* for every stack that has a local component, and True only for a stack whose
\* components are all remote.
C17_LocalComponentRejected ==
    validation.kind # "pending" =>
        LET locals == {i \in 1..Len(validation.stack) : validation.stack[i].is_local}
        IN  /\ validation.ok <=> locals = {}
            /\ locals # {} =>
                   \E i \in locals :
                       validation.message = LocalComponentMessage(validation.stack[i])

\* the three component checks of get_stack, written out
IsFullAwsStack(components) ==
    \A t \in StackComponentTypes :
        /\ t \in DOMAIN components
        /\ Len(components[t]) = 1
        /\ components[t][1].flavor = ExpectedFlavor(t)
        /\ components[t][1].connector # None

\* C19: get_stack returns a stack only if it is one of the listed stacks and has
\* exactly one linked component of the expected flavor for each of the three
\* types; check_component is true only when all its checks pass; when no listed
\* stack passes, get_stack returns None.
C19_ReturnsOnlyFullStack ==
    /\ found.kind = "returned" =>
           /\ found.value # None =>
                  /\ found.value[1] \in Range(listed)
                  /\ IsFullAwsStack(stacks[found.value[1]].components)
           /\ (\A i \in Range(listed) : ~IsFullAwsStack(stacks[i].components)) =>
                  found.value = None
    /\ \A components \in StackKinds : \A t \in StackComponentTypes :
               check_component(components, t, ExpectedFlavor(t)) =>
                   /\ t \in DOMAIN components
                   /\ Len(components[t]) = 1
                   /\ components[t][1].flavor = ExpectedFlavor(t)
                   /\ components[t][1].connector # None

\* get_stack skipped a listed stack that fails a check and returned a later one
C19_Witness ==
    /\ found.kind = "returned"
    /\ found.value # None
    /\ Len(listed) = 2
    /\ found.value[1] = listed[2]
    /\ stacks[listed[1]].components = DeviantStack("container_registry", "unlinked")

\* C20: a get_stack call lists no stack that an earlier call listed, and after a
\* call that listed stacks date_start is the newest creation date listed.
C20_NoStackListedTwice ==
    /\ relisted = {}
    /\ Len(listed) > 0 =>
           /\ \E i \in Range(listed) : stacks[i].created = date_start
           /\ \A i \in Range(listed) : stacks[i].created <= date_start

\* stack i is registered, passes the three checks and is selected by the filter
\* of the next query
AwaitedStack(i) ==
    IF i \in 1..Len(stacks)
    THEN /\ IsFullAwsStack(stacks[i].components)
         /\ stacks[i].created > Truncate(date_start)
    ELSE FALSE

\* get_stack returned stack i, or a matching stack that is not older
ReturnedStack(i) ==
    IF i \in 1..Len(stacks) /\ found.kind = "returned" /\ found.value # None
    THEN stacks[found.value[1]].created >= stacks[i].created
    ELSE FALSE

\* C21: a matching stack registered after the deployment object was created is
\* eventually returned by the repeated get_stack calls, whatever other stacks
\* are registered, also when more than a page of them is registered between
\* two calls.
C21_MatchingStackEventuallyReturned ==
    \A i \in 1..MaxStacks : AwaitedStack(i) ~> ReturnedStack(i)

\* C22: the temporary packaging directory that holds the built wheel is not
\* removed before the wheel has been read for the upload, and no submission
\* fails to open the wheel.
C22_WheelReadBeforeTempDirRemoved ==
    \A p \in Submissions :
        /\ (wheel_path[p] = "temp" /\ temp_dir[p] = "removed") => file_bytes[p]
        /\ error[p].type # "FileNotFoundError"

\* C23: create_event_source validates the configuration against the plugin's
\* config class before it calls the store: an invalid configuration raises
\* ValueError and the store is not called; a valid one calls the store exactly
\* once with the request, and what the store returns is returned.
C23_ValidatedBeforeStore ==
    [][ event_source' # event_source \/ store_calls' # store_calls =>
          LET request == event_source'.request
              plugin == CHOOSE pl \in EventSourcePlugins : pl.name = request.plugin
          IN  IF Construct(plugin.config_class, request.configuration) = "ValueError"
              THEN /\ event_source'.kind = "ValueError"
                   /\ store_calls' = store_calls
              ELSE /\ store_calls' = Append(store_calls, request)
                   /\ event_source'.kind \in {"returned", "StoreError"}
                   /\ event_source'.kind = "returned" =>
                          /\ event_source'.value.id = Len(store_calls')
                          /\ event_source'.value.configuration = request.configuration
    ]_vars

\* an invalid request is refused after a valid one was stored
C23_Witness ==
    /\ event_source.kind = "ValueError"
    /\ Len(store_calls) = 1

\* C24: get_event_source_config_schema and source_config_schema are the schema
\* of EVENT_SOURCE_CONFIG_CLASS; get_event_filter_config_schema and
\* filter_config_schema are the schema of EVENT_FILTER_CONFIG_CLASS.
C24_SchemasOfTheirOwnClass ==
    \A cls \in EventSourceFlavors :
        schemas.flavor = cls.FLAVOR =>
            /\ schemas.kind \in {"get_event_source_config_schema",
                                 "get_plugin_flavor_response_model"} =>
                   schemas.source_config_schema = Schema(cls.EVENT_SOURCE_CONFIG_CLASS)
            /\ schemas.kind \in {"get_event_filter_config_schema",
                                 "get_plugin_flavor_response_model"} =>
                   schemas.filter_config_schema = Schema(cls.EVENT_FILTER_CONFIG_CLASS)

\* position of the event in events, 0 when it did not happen
EventAt(ev) ==
    IF \E i \in 1..Len(events) : events[i] = ev
    THEN CHOOSE i \in 1..Len(events) : events[i] = ev
    ELSE 0

\* C25: the wrapper raises without running the body when the experiment tracker
\* is not MLflow or no run is active; otherwise the body runs while the run
\* (and with nested=True the nested run, entered after the parent) is entered,
\* and whenever the body was left the nested run is exited before the parent
\* run and both are exited.
C25_BodyInsideTrackingContext ==
    /\ tpc = "in_body" =>
           entered = IF tracking.nested THEN <<"run", "nested_run">> ELSE <<"run">>
    /\ tpc = "left" =>
           IF tracking.tracker # "mlflow" \/ ~tracking.active_run
           THEN wrapped.kind = "raised" /\ events = <<>>
           ELSE /\ entered = <<>>
                /\ 0 < EventAt("enter_run")
                /\ EventAt("enter_run") < EventAt("body")
                /\ EventAt("body") < EventAt("body_ends")
                /\ EventAt("body_ends") < EventAt("exit_run")
                /\ tracking.nested =>
                       /\ EventAt("enter_run") < EventAt("enter_nested_run")
                       /\ EventAt("enter_nested_run") < EventAt("body")
                       /\ EventAt("body_ends") < EventAt("exit_nested_run")
                       /\ EventAt("exit_nested_run") < EventAt("exit_run")
                /\ wrapped.value = "result" <=> wrapped.kind = "returned"

\* a nested step whose body raised has left the wrapper
C25_Witness ==
    /\ tpc = "left"
    /\ tracking.nested
    /\ wrapped = [kind |-> "raised", value |-> "body_error"]
    /\ EventAt("log") > 0

====
